---- MODULE Spec2Model ----
(***************************************************************************)
(* A model of src/automation.js: one run of main(), which provisions a     *)
(* mail.tm mailbox, signs up, polls the mailbox for the confirmation link, *)
(* logs in, activates the trial, posts the result and tears the browser    *)
(* down.  Strings whose content decides a branch (the message that         *)
(* fetchJson throws, the bodies the link pattern is matched against) are   *)
(* sequences of one-character strings.  The browser, the mail provider,    *)
(* the target site and the webhook are the environment: every awaited call *)
(* to them has its outcomes chosen nondeterministically.                   *)
(***************************************************************************)
EXTENDS Integers, Sequences, FiniteSets, TLC

(***************************************************************************)
(* Bounds of the model.                                                    *)
(***************************************************************************)
\* Largest clock value; the clock counts abstract ticks.
MaxTime == 3
\* Largest number of messages the provider's inbox holds.
MaxInbox == 2

(***************************************************************************)
(* Program constants.                                                      *)
(***************************************************************************)
\* for (let attempt = 1; attempt <= 10; attempt++)
MaxAttempts == 10
\* [0-9a-fA-F-]{36}
TokenLen == 36
\* body.slice(0, 800)
TrialBodySnip == 800

(***************************************************************************)
(* Characters and strings.                                                 *)
(***************************************************************************)
DigitChars == <<"0","1","2","3","4","5","6","7","8","9">>

RECURSIVE Digits(_)
\* String(n) for a natural number n.
Digits(n) ==
  IF n < 10 THEN <<DigitChars[n + 1]>>
  ELSE Digits(n \div 10) \o <<DigitChars[(n % 10) + 1]>>

\* s.includes(sub)
Includes(s, sub) ==
  \E i \in 1..(Len(s) - Len(sub) + 1) : SubSeq(s, i, i + Len(sub) - 1) = sub

MAIL_TM_BASE == <<"h","t","t","p","s",":","/","/","a","p","i",".","m","a","i","l",".","t","m">>
AccountsPath == <<"/","a","c","c","o","u","n","t","s">>
DomainsPath == <<"/","d","o","m","a","i","n","s">>
TokenPath == <<"/","t","o","k","e","n">>
MessagesPath == <<"/","m","e","s","s","a","g","e","s">>
GetWord == <<"G","E","T">>
PostWord == <<"P","O","S","T">>

(***************************************************************************)
(* HTTP responses and fetchJson.                                           *)
(* A response is [net, status, statusText, text, jsonText, json]: net is   *)
(* FALSE when fetch itself rejects; text is the raw body; jsonText is      *)
(* JSON.stringify of the parsed body (<<>> when the body is not JSON or    *)
(* parses to a falsy value) and json the parsed value.                     *)
(***************************************************************************)
Null == [tag |-> "null"]

Response(status, statusText, text, jsonText, json) ==
  [net |-> TRUE, status |-> status, statusText |-> statusText, text |-> text,
   jsonText |-> jsonText, json |-> json]

NetworkFailure ==
  [net |-> FALSE, status |-> 0, statusText |-> <<>>, text |-> <<>>,
   jsonText |-> <<>>, json |-> Null]

\* res.ok
Ok(status) == status >= 200 /\ status <= 299

NoErr == [kind |-> "none", msg |-> <<>>, status |-> 0, body |-> 0]

\* new Error(...) with the message text that decides nothing kept as its kind.
Error(kind) == [kind |-> kind, msg |-> <<>>, status |-> 0, body |-> 0]

\* `HTTP ${res.status} ${res.statusText} on ${method} ${url}\n${details}`
HttpMessage(method, url, resp) ==
  <<"H","T","T","P"," ">> \o Digits(resp.status) \o <<" ">> \o resp.statusText
    \o <<" ","o","n"," ">> \o method \o <<" ">> \o url \o <<"\n">>
    \o (IF resp.json # Null THEN resp.jsonText ELSE resp.text)

\* fetchJson: [threw, error, json].
fetchJson(method, url, resp) ==
  IF ~resp.net
    THEN [threw |-> TRUE,
          error |-> [kind |-> "fetch failed",
                     msg |-> <<"f","e","t","c","h"," ","f","a","i","l","e","d">>,
                     status |-> 0, body |-> 0],
          json |-> Null]
  ELSE IF ~Ok(resp.status)
    THEN [threw |-> TRUE,
          error |-> [kind |-> "HTTP", msg |-> HttpMessage(method, url, resp),
                     status |-> resp.status, body |-> 0],
          json |-> Null]
  ELSE [threw |-> FALSE, error |-> NoErr, json |-> resp.json]

Created == <<"C","r","e","a","t","e","d">>
OkText == <<"O","K">>
Unprocessable == <<"U","n","p","r","o","c","e","s","s","a","b","l","e"," ","E","n","t","i","t","y">>
ServerError == <<"I","n","t","e","r","n","a","l"," ","S","e","r","v","e","r"," ","E","r","r","o","r">>
TooMany == <<"T","o","o"," ","M","a","n","y"," ","R","e","q","u","e","s","t","s">>
CollisionBody == <<"{","\"","v","i","o","l","a","t","i","o","n","s","\"",":","\"","a","d","d","r","e","s","s",":"," ","a","l","r","e","a","d","y"," ","u","s","e","d","\"","}">>
PlainBody == <<"o","o","p","s">>
TraceIdBody == <<"{","\"","d","e","t","a","i","l","\"",":","\"","r","e","q"," ","1","4","2","2","5","\"","}">>

(***************************************************************************)
(* The answers the mail provider can give.                                 *)
(***************************************************************************)
\* GET /domains: hydra:member lists.
DomainLists ==
  { <<>>,
    <<[isActive |-> FALSE, domain |-> "old.example"]>>,
    <<[isActive |-> TRUE, domain |-> ""],
      [isActive |-> TRUE, domain |-> "mail.example"],
      [isActive |-> TRUE, domain |-> "other.example"]>> }

DomainsResponses ==
  { Response(200, OkText, <<>>, <<>>, [tag |-> "domains", member |-> l]) : l \in DomainLists }
    \cup { Response(200, OkText, <<>>, <<>>, Null),
           Response(500, ServerError, PlainBody, <<>>, Null),
           NetworkFailure }

\* POST /accounts
AccountsResponses ==
  { Response(201, Created, <<>>, <<>>, [tag |-> "account", id |-> "acc-1"]),
    Response(201, Created, <<>>, <<>>, Null),
    Response(422, Unprocessable, CollisionBody, CollisionBody, [tag |-> "violation"]),
    Response(422, Unprocessable, PlainBody, <<>>, Null),
    Response(500, ServerError, PlainBody, <<>>, Null),
    Response(500, ServerError, TraceIdBody, TraceIdBody, [tag |-> "problem"]),
    Response(429, TooMany, <<"4","2","2">>, <<>>, Null),
    NetworkFailure }

\* POST /token
TokenResponses ==
  { Response(200, OkText, <<>>, <<>>, [tag |-> "token", token |-> "tok-1"]),
    Response(200, OkText, <<>>, <<>>, Null),
    Response(401, <<"U","n","a","u","t","h","o","r","i","z","e","d">>, PlainBody, <<>>, Null),
    NetworkFailure }

\* randomLetters(10): the local parts a run can draw.
LocalParts == {"kqmpabcdef", "zzzzzzzzzz"}


(***************************************************************************)
(* The confirmation-link pattern and the messages of the inbox.            *)
(***************************************************************************)
HexChars == {"0","1","2","3","4","5","6","7","8","9","a","b","c","d","e","f","A","B","C","D","E","F","-"}
ReHttp == <<"h","t","t","p">>
ReRest == <<":","/","/","c","l","i","e","n","t",".","e","m","b","y","i","l","t","v",".","i","o","/","c","o","n","f","i","r","m","a","t","i","o","n","-","t","o","k","e","n","/">>

\* Whether s continues at j with ://client.embyiltv.io/confirmation-token/
\* and TokenLen characters of [0-9a-fA-F-].
RestAt(s, j) ==
  /\ j + Len(ReRest) + TokenLen - 1 <= Len(s)
  /\ SubSeq(s, j, j + Len(ReRest) - 1) = ReRest
  /\ \A k \in (j + Len(ReRest))..(j + Len(ReRest) + TokenLen - 1) : s[k] \in HexChars

\* The index where a match of re that starts at i ends, 0 when none starts there.
MatchEnd(s, i) ==
  IF i + 3 <= Len(s) /\ SubSeq(s, i, i + 3) = ReHttp
    THEN IF i + 4 <= Len(s) /\ s[i + 4] = "s" /\ RestAt(s, i + 5)
           THEN i + 4 + Len(ReRest) + TokenLen
         ELSE IF RestAt(s, i + 4)
           THEN i + 3 + Len(ReRest) + TokenLen
         ELSE 0
  ELSE 0

\* combined.match(re)?.[0]: the leftmost match, <<>> when there is none.
Match(s) ==
  LET starts == { i \in 1..Len(s) : MatchEnd(s, i) > 0 }
  IN IF starts = {} THEN <<>>
     ELSE LET i == CHOOSE x \in starts : \A y \in starts : x <= y
          IN SubSeq(s, i, MatchEnd(s, i))

Str(v) == [type |-> "string", v |-> v, parts |-> <<>>]
Arr(parts) == [type |-> "array", v |-> <<>>, parts |-> parts]
Undefined == [type |-> "undefined", v |-> <<>>, parts |-> <<>>]

RECURSIVE Join(_)
\* parts.join("\n")
Join(parts) ==
  IF parts = <<>> THEN <<>>
  ELSE IF Len(parts) = 1 THEN parts[1]
  ELSE parts[1] \o <<"\n">> \o Join(Tail(parts))

\* const combined = `${text}\n${html}` of a full message.
Combined(full) ==
  LET text == IF full.text.type = "string" THEN full.text.v ELSE <<>>
      html == IF full.html.type = "string" THEN full.html.v
              ELSE IF full.html.type = "array" THEN Join(full.html.parts)
              ELSE <<>>
  IN text \o <<"\n">> \o html

UuidA == <<"3","f","a","8","5","f","6","4","-","5","7","1","7","-","4","5","6","2","-","b","3","f","c","-","2","c","9","6","3","f","6","6","a","f","a","6">>
UuidB == <<"0","0","0","0","0","0","0","0","-","A","B","C","D","-","4","5","6","2","-","b","3","f","c","-","2","c","9","6","3","f","6","6","a","f","a","7">>
Hello == <<"h","e","l","l","o"," ","h","t","t","p",":","/","/","x">>

\* The messages the provider can hold, by key; id "" is an entry without id.
Message(k) ==
  CASE k = "noid" ->
         [id |-> "", text |-> Str(ReHttp \o <<"s">> \o ReRest \o UuidA), html |-> Undefined]
    [] k = "linkText" ->
         [id |-> "m-a",
          text |-> Str(Hello \o <<" ">> \o ReHttp \o <<"s">> \o ReRest \o UuidA \o <<" ","!">>),
          html |-> Str(ReHttp \o ReRest \o UuidB)]
    [] k = "linkHtml" ->
         [id |-> "m-b", text |-> Undefined,
          html |-> Arr(<<Hello, <<"<","a",">">> \o ReHttp \o ReRest \o UuidB \o <<"f","f">>>>)]
    [] k = "nearMiss" ->
         [id |-> "m-c",
          text |-> Str(ReHttp \o <<"s">> \o ReRest \o SubSeq(UuidA, 1, TokenLen - 1) \o <<"z">>),
          html |-> Arr(<<ReHttp \o <<"s">>, ReRest \o UuidA>>)]

MessageKeys == {"noid", "linkText", "linkHtml", "nearMiss"}

\* Whether the message can be fetched and its body holds a link.
HasLink(k) == Message(k).id # "" /\ Match(Combined(Message(k))) # <<>>


(***************************************************************************)
(* State.                                                                  *)
(***************************************************************************)
VARIABLES
  pc,             \* where main() (or the function it awaits) stands
  err,            \* the exception being propagated, NoErr when none
  exitCode,       \* -1 while the process runs, then its exit code
  stagesDone,     \* how many of the five stages have completed
  lastWait,       \* the wait that main's latest step awaited, and its outcome
  browser,        \* "none", "open", "closed"
  context,        \* "none", "open", "closed"
  pages,          \* the context's pages, each "open" or "closed"
  tracing,        \* "off", "on", "stopped"
  tracingStarted, \* main's flag of that name
  calls,          \* the trace-stop and close calls made so far, in order
  domain,         \* createMailTmMailbox: const domain
  attempt,        \* createMailTmMailbox: the loop counter
  address,        \* createMailTmMailbox: let address
  account,        \* createMailTmMailbox: let account
  accountReqs,    \* number of POST /accounts requests sent
  tokenReqs,      \* number of POST /token requests sent
  n422,           \* number of POST /accounts answered with status 422
  nOtherRetried,  \* number of other failed POST /accounts that were retried
  addrDrawn,      \* number of addresses generated
  mailbox,        \* main's const mailbox
  now,            \* the clock, Date.now()
  inbox,          \* the provider's messages for the mailbox, oldest first
  firstMatchAt,   \* when the first message with a link arrived, -1 if none
  inflight,       \* provider requests of the watcher awaiting an answer
  timeoutMs,      \* waitForConfirmationLink: parameter
  pollEveryMs,    \* waitForConfirmationLink: parameter
  deadline,       \* waitForConfirmationLink: const deadline
  messages,       \* waitForConfirmationLink: const messages of this round
  idx,            \* waitForConfirmationLink: position of the for loop
  fetched,        \* positions of messages whose body this round requested
  wakeAt,         \* when the timer of sleep(pollEveryMs) fires
  roundInTime,    \* whether the clock was before the deadline when this round began
  confirmUrl,     \* the link returned, <<>> when none
  trialResp,      \* the awaited trial response
  webhookReqs,    \* the payloads POSTed to the webhook
  postCalls,      \* number of calls of postResult
  postEnv,        \* process.env as postResult read it
  postResp        \* status of the webhook's answer, 0 when none

browserVars == <<browser, context, pages, tracing, tracingStarted, calls>>
mbVars == <<domain, attempt, address, account, accountReqs, tokenReqs, n422, nOtherRetried, addrDrawn>>
worldVars == <<now, inbox, firstMatchAt, inflight>>
wVars == <<timeoutMs, pollEveryMs, deadline, messages, idx, fetched, wakeAt, roundInTime, confirmUrl>>
tailVars == <<trialResp, webhookReqs, postCalls, postEnv, postResp>>
vars == <<pc, err, exitCode, stagesDone, lastWait, browserVars, mbVars, mailbox, worldVars, wVars, tailVars>>

NoAddress == [local |-> "", domain |-> ""]
NoMailbox == [address |-> NoAddress, token |-> "", accountId |-> ""]
NoResp == [status |-> 0, bodyLen |-> 0, readable |-> FALSE]
NoEnv == [url |-> "unread", jobId |-> "unread"]
NoWait == [name |-> "none", ok |-> TRUE]

Init ==
  /\ pc = "launch"
  /\ err = NoErr
  /\ exitCode = -1
  /\ stagesDone = 0
  /\ lastWait = NoWait
  /\ browser = "none"
  /\ context = "none"
  /\ pages = <<>>
  /\ tracing = "off"
  /\ tracingStarted = FALSE
  /\ calls = <<>>
  /\ domain = ""
  /\ attempt = 0
  /\ address = NoAddress
  /\ account = Null
  /\ accountReqs = 0
  /\ tokenReqs = 0
  /\ n422 = 0
  /\ nOtherRetried = 0
  /\ addrDrawn = 0
  /\ mailbox = NoMailbox
  /\ now = 0
  /\ inbox = <<>>
  /\ firstMatchAt = -1
  /\ inflight = 0
  /\ timeoutMs = 0
  /\ pollEveryMs = 0
  /\ deadline = 0
  /\ messages = <<>>
  /\ idx = 0
  /\ fetched = <<>>
  /\ wakeAt = 0
  /\ roundInTime = TRUE
  /\ confirmUrl = <<>>
  /\ trialResp = NoResp
  /\ webhookReqs = <<>>
  /\ postCalls = 0
  /\ postEnv = NoEnv
  /\ postResp = 0

\* An exception thrown inside main's try block: control goes to finally.
Throw(e) ==
  /\ err' = e
  /\ pc' = "finally"

(***************************************************************************)
(* main(): launch, context, tracing.                                       *)
(***************************************************************************)
\* const browser = await chromium.launch({ headless: true });
Launch ==
  /\ pc = "launch"
  /\ \E ok \in BOOLEAN :
       IF ok
         THEN /\ browser' = "open"
              /\ pc' = "newContext"
              /\ err' = err
         ELSE /\ browser' = browser
              /\ pc' = "settle"
              /\ err' = Error("browserType.launch failed")
  /\ UNCHANGED <<exitCode, stagesDone, lastWait, context, pages, tracing, tracingStarted,
                 calls, mbVars, mailbox, worldVars, wVars, tailVars>>

\* const context = await browser.newContext();  (before the try block)
NewContext ==
  /\ pc = "newContext"
  /\ \E ok \in BOOLEAN :
       IF ok
         THEN /\ context' = "open"
              /\ pc' = "tracingStart"
              /\ err' = err
         ELSE /\ context' = context
              /\ pc' = "settle"
              /\ err' = Error("browser.newContext failed")
  /\ UNCHANGED <<exitCode, stagesDone, lastWait, browser, pages, tracing, tracingStarted,
                 calls, mbVars, mailbox, worldVars, wVars, tailVars>>

\* await context.tracing.start(...); tracingStarted = true;
TracingStart ==
  /\ pc = "tracingStart"
  /\ \E ok \in BOOLEAN :
       IF ok
         THEN /\ tracing' = "on"
              /\ tracingStarted' = TRUE
              /\ pc' = "createMailbox"
              /\ err' = err
         ELSE /\ UNCHANGED <<tracing, tracingStarted>>
              /\ Throw(Error("tracing.start failed"))
  /\ UNCHANGED <<exitCode, stagesDone, lastWait, browser, context, pages,
                 calls, mbVars, mailbox, worldVars, wVars, tailVars>>

(***************************************************************************)
(* createMailTmMailbox().                                                  *)
(***************************************************************************)
\* list.find((d) => d?.isActive && d?.domain)?.domain, "" when none.
ActiveDomain(list) ==
  LET I == { i \in 1..Len(list) : list[i].isActive /\ list[i].domain # "" }
  IN IF I = {} THEN ""
     ELSE list[CHOOSE i \in I : \A j \in I : i <= j].domain

\* A loop that runs once too often.
LoopContinuesOnceMore(a) == a <= MaxAttempts + 1

\* for (...; attempt <= 10; ...)
LoopContinues(a) == a <= MaxAttempts

\* String(e.message).includes("422")
IsCollision(e) == Includes(e.msg, <<"4","2","2">>)

\* Lines 71-80: the domains request and the choice of the domain.
MbDomains ==
  /\ pc = "createMailbox"
  /\ \E resp \in DomainsResponses :
       LET r == fetchJson(GetWord, MAIL_TM_BASE \o DomainsPath, resp)
           list == IF r.json = Null THEN <<>> ELSE r.json.member
       IN IF r.threw
            THEN /\ err' = r.error
                 /\ pc' = "mb_exit"
                 /\ UNCHANGED <<domain, attempt>>
          ELSE IF ActiveDomain(list) = ""
            THEN /\ err' = Error("mail.tm: No active domain returned from /domains")
                 /\ pc' = "mb_exit"
                 /\ UNCHANGED <<domain, attempt>>
          ELSE /\ domain' = ActiveDomain(list)
               /\ attempt' = 1
               /\ pc' = "mb_account"
               /\ err' = err
  /\ UNCHANGED <<exitCode, stagesDone, lastWait, browserVars, address, account, accountReqs,
                 tokenReqs, n422, nOtherRetried, addrDrawn, mailbox, worldVars, wVars, tailVars>>

\* Lines 82-94: one iteration of the account-creation loop.
MbAccount ==
  /\ pc = "mb_account"
  /\ IF LoopContinues(attempt)
       THEN \E l \in LocalParts, resp \in AccountsResponses :
              LET r == fetchJson(PostWord, MAIL_TM_BASE \o AccountsPath, resp)
                  is422 == resp.net /\ resp.status = 422
              IN /\ address' = [local |-> l, domain |-> domain]
                 /\ addrDrawn' = addrDrawn + 1
                 /\ accountReqs' = accountReqs + 1
                 /\ n422' = IF is422 THEN n422 + 1 ELSE n422
                 /\ IF ~r.threw
                      THEN /\ account' = r.json
                           /\ pc' = "mb_check"
                           /\ UNCHANGED <<attempt, nOtherRetried, err>>
                    ELSE IF IsCollision(r.error)
                      THEN /\ attempt' = attempt + 1
                           /\ nOtherRetried' = IF is422 THEN nOtherRetried ELSE nOtherRetried + 1
                           /\ UNCHANGED <<account, pc, err>>
                    ELSE /\ err' = r.error
                         /\ pc' = "mb_exit"
                         /\ UNCHANGED <<account, attempt, nOtherRetried>>
       ELSE /\ pc' = "mb_check"
            /\ UNCHANGED <<address, addrDrawn, accountReqs, n422, account, attempt,
                           nOtherRetried, err>>
  /\ UNCHANGED <<exitCode, stagesDone, lastWait, browserVars, domain, tokenReqs, mailbox,
                 worldVars, wVars, tailVars>>

\* Lines 96-105: the account check, the token request and the return.
MbToken ==
  /\ pc = "mb_check"
  /\ IF account = Null
       THEN /\ err' = Error("mail.tm: Failed to create account after retries")
            /\ UNCHANGED <<tokenReqs, mailbox>>
       ELSE \E resp \in TokenResponses :
              LET r == fetchJson(PostWord, MAIL_TM_BASE \o TokenPath, resp)
              IN /\ tokenReqs' = tokenReqs + 1
                 /\ IF r.threw
                      THEN /\ err' = r.error
                           /\ mailbox' = mailbox
                    ELSE IF r.json = Null
                      THEN /\ err' = Error("mail.tm: Token response did not include token")
                           /\ mailbox' = mailbox
                    ELSE /\ mailbox' = [address |-> address, token |-> r.json.token,
                                        accountId |-> account.id]
                         /\ err' = err
  /\ pc' = "mb_exit"
  /\ UNCHANGED <<exitCode, stagesDone, lastWait, browserVars, domain, attempt, address, account,
                 accountReqs, n422, nOtherRetried, addrDrawn, worldVars, wVars, tailVars>>

\* createMailTmMailbox settles: its locals go out of scope and main goes on
\* (line 207) or its exception reaches main's finally.
MbExit ==
  /\ pc = "mb_exit"
  /\ pc' = IF err = NoErr THEN "signupPage" ELSE "finally"
  /\ stagesDone' = IF err = NoErr THEN 1 ELSE stagesDone
  /\ domain' = ""
  /\ attempt' = 0
  /\ address' = NoAddress
  /\ account' = Null
  /\ accountReqs' = 0
  /\ tokenReqs' = 0
  /\ n422' = 0
  /\ nOtherRetried' = 0
  /\ addrDrawn' = 0
  /\ UNCHANGED <<err, exitCode, lastWait, browserVars, mailbox, worldVars, wVars, tailVars>>


(***************************************************************************)
(* main(): the signup page.                                                *)
(***************************************************************************)
\* const pageSignup = await context.newPage();  (line 211)
\* const pageConfirm = await context.newPage(); and its listeners (240-284)
NewPage ==
  /\ pc \in {"signupPage", "confirmPage"}
  /\ \E ok \in BOOLEAN :
       IF ok
         THEN /\ pages' = Append(pages, "open")
              /\ pc' = IF pc = "signupPage" THEN "signupForm" ELSE "confirmGoto"
              /\ err' = err
         ELSE /\ pages' = pages
              /\ Throw(Error("context.newPage failed"))
  /\ UNCHANGED <<exitCode, stagesDone, lastWait, browser, context, tracing, tracingStarted,
                 calls, mbVars, mailbox, worldVars, wVars, tailVars>>

\* The awaited page operations that either succeed or throw, and the step
\* that follows each: goto and fills of the signup form (212-221), goto of
\* the confirmation link (288), the login (304-327), waitForURL (331), the
\* trial form (335-364).
UiFollows ==
  [signupForm |-> "signupSubmit", confirmGoto |-> "backToLogin", login |-> "subscriptions",
   subscriptions |-> "trialForm", trialForm |-> "trialClick"]

UiStep ==
  /\ pc \in DOMAIN UiFollows
  /\ \E ok \in BOOLEAN :
       IF ok
         THEN /\ pc' = UiFollows[pc]
              /\ err' = err
         ELSE Throw(Error("page operation failed"))
  /\ lastWait' = NoWait
  /\ UNCHANGED <<exitCode, stagesDone, browserVars, mbVars, mailbox, worldVars,
                 wVars, tailVars>>

\* The same without the catch on the wait.
SignupSubmitErrorsNoCatch(clickOk, waitOk) ==
  (IF clickOk THEN {} ELSE {"locator.click failed"})
    \cup (IF waitOk THEN {} ELSE {"page.waitForLoadState failed"})

\* Promise.all([submitBtn.click(),
\*              pageSignup.waitForLoadState("networkidle").catch(() => null)])
\* The errors it can reject with.
SignupSubmitErrors(clickOk, waitOk) ==
  IF clickOk THEN {} ELSE {"locator.click failed"}

\* Lines 224-227.
SignupSubmit ==
  /\ pc = "signupSubmit"
  /\ \E clickOk \in BOOLEAN, waitOk \in BOOLEAN :
       /\ lastWait' = [name |-> "networkidle", ok |-> waitOk]
       /\ IF SignupSubmitErrors(clickOk, waitOk) = {}
            THEN /\ pc' = "waitConfirmation"
                 /\ stagesDone' = 2
                 /\ err' = err
            ELSE /\ \E e \in SignupSubmitErrors(clickOk, waitOk) : Throw(Error(e))
                 /\ stagesDone' = stagesDone
  /\ UNCHANGED <<exitCode, browserVars, mbVars, mailbox, worldVars, wVars, tailVars>>

(***************************************************************************)
(* waitForConfirmationLink() and the mail provider's inbox.                *)
(***************************************************************************)
\* A loop that gives up one tick early.
BeforeDeadlineEarly(t, d) == t + 1 < d

\* while (Date.now() < deadline)
BeforeDeadline(t, d) == t < d

\* A loop without the id test.
SkipEntryNever(m) == FALSE

\* if (!id) continue;
SkipEntry(m) == m.id = ""

\* The durations, in ticks, a call can pass.
TimeoutMsChoices == 0..(MaxTime - 1)
PollEveryMsChoices == 0..1

\* main's call (231-235) and const deadline = Date.now() + timeoutMs.  main
\* passes 120000 and 1000; the model draws the two durations, in ticks.
WCall ==
  /\ pc = "waitConfirmation"
  /\ \E t \in TimeoutMsChoices, p \in PollEveryMsChoices :
       /\ timeoutMs' = t
       /\ pollEveryMs' = p
       /\ deadline' = now + t
  /\ pc' = "w_loop"
  /\ lastWait' = NoWait
  /\ UNCHANGED <<err, exitCode, stagesDone, browserVars, mbVars, mailbox, worldVars,
                 messages, idx, fetched, wakeAt, roundInTime, confirmUrl, tailVars>>

\* Line 117, then the request of line 118 is sent, or line 148 throws.
WLoop ==
  /\ pc = "w_loop"
  /\ IF BeforeDeadline(now, deadline)
       THEN /\ inflight' = inflight + 1
            /\ roundInTime' = (now < deadline)
            /\ pc' = "w_listing"
            /\ err' = err
       ELSE /\ err' = Error("Timed out waiting for confirmation email")
            /\ pc' = "w_exit"
            /\ UNCHANGED <<inflight, roundInTime>>
  /\ UNCHANGED <<exitCode, stagesDone, lastWait, browserVars, mbVars, mailbox, now, inbox,
                 firstMatchAt, timeoutMs, pollEveryMs, deadline, messages, idx, fetched,
                 wakeAt, confirmUrl, tailVars>>

\* GET /messages answers.
ListResponses ==
  { Response(200, OkText, <<>>, <<>>, [tag |-> "messages", member |-> inbox]),
    Response(200, OkText, <<>>, <<>>, Null),
    Response(401, <<"U","n","a","u","t","h","o","r","i","z","e","d">>, PlainBody, <<>>, Null) }

\* Lines 118-122: the list arrives.
WListed ==
  /\ pc = "w_listing"
  /\ inflight' = inflight - 1
  /\ \E resp \in ListResponses :
       LET r == fetchJson(GetWord, MAIL_TM_BASE \o MessagesPath, resp)
       IN IF r.threw
            THEN /\ err' = r.error
                 /\ pc' = "w_exit"
                 /\ UNCHANGED <<messages, idx, fetched>>
            ELSE /\ messages' = IF r.json = Null THEN <<>> ELSE r.json.member
                 /\ idx' = 1
                 /\ fetched' = <<>>
                 /\ pc' = "w_next"
                 /\ err' = err
  /\ UNCHANGED <<exitCode, stagesDone, lastWait, browserVars, mbVars, mailbox, now, inbox,
                 firstMatchAt, timeoutMs, pollEveryMs, deadline, wakeAt, roundInTime,
                 confirmUrl, tailVars>>

\* Lines 124-130 and 145: the for loop takes the next message: it skips it,
\* requests its body, or, the list exhausted, starts sleep(pollEveryMs).
WNext ==
  /\ pc = "w_next"
  /\ IF idx > Len(messages)
       THEN /\ wakeAt' = now + pollEveryMs
            /\ pc' = "w_sleep"
            /\ UNCHANGED <<idx, fetched, inflight>>
       ELSE IF SkipEntry(Message(messages[idx]))
         THEN /\ idx' = idx + 1
              /\ UNCHANGED <<pc, wakeAt, fetched, inflight>>
       ELSE /\ inflight' = inflight + 1
            /\ fetched' = Append(fetched, idx)
            /\ pc' = "w_fetching"
            /\ UNCHANGED <<idx, wakeAt>>
  /\ UNCHANGED <<err, exitCode, stagesDone, lastWait, browserVars, mbVars, mailbox, now, inbox,
                 firstMatchAt, timeoutMs, pollEveryMs, deadline, messages, roundInTime,
                 confirmUrl, tailVars>>

\* Lines 128-143: the body arrives and is searched.
WFetched ==
  /\ pc = "w_fetching"
  /\ inflight' = inflight - 1
  /\ \E resp \in { Response(200, OkText, <<>>, <<>>, Message(messages[idx])),
                   Response(500, ServerError, PlainBody, <<>>, Null) } :
       LET r == fetchJson(GetWord, MAIL_TM_BASE \o MessagesPath \o <<"/">>, resp)
           match == Match(Combined(r.json))
       IN IF r.threw
            THEN /\ err' = r.error
                 /\ pc' = "w_exit"
                 /\ UNCHANGED <<idx, confirmUrl>>
          ELSE IF match # <<>>
            THEN /\ confirmUrl' = match
                 /\ pc' = "w_exit"
                 /\ UNCHANGED <<idx, err>>
          ELSE /\ idx' = idx + 1
               /\ pc' = "w_next"
               /\ UNCHANGED <<confirmUrl, err>>
  /\ UNCHANGED <<exitCode, stagesDone, lastWait, browserVars, mbVars, mailbox, now, inbox,
                 firstMatchAt, timeoutMs, pollEveryMs, deadline, messages, fetched, wakeAt,
                 roundInTime, tailVars>>

\* Line 145: the timer of sleep fires, not before pollEveryMs has passed.
WSleepDone ==
  /\ pc = "w_sleep"
  /\ now >= wakeAt
  /\ pc' = "w_loop"
  /\ UNCHANGED <<err, exitCode, stagesDone, lastWait, browserVars, mbVars, mailbox, worldVars,
                 wVars, tailVars>>

\* waitForConfirmationLink settles: its locals go out of scope, and the
\* provider, never asked again, is no longer followed.  main goes on at line
\* 237 or the exception reaches main's finally.
WExit ==
  /\ pc = "w_exit"
  /\ pc' = IF err = NoErr THEN "confirmPage" ELSE "finally"
  /\ stagesDone' = IF err = NoErr THEN 3 ELSE stagesDone
  /\ timeoutMs' = 0
  /\ pollEveryMs' = 0
  /\ deadline' = 0
  /\ messages' = <<>>
  /\ idx' = 0
  /\ fetched' = <<>>
  /\ wakeAt' = 0
  /\ roundInTime' = TRUE
  /\ inbox' = <<>>
  /\ firstMatchAt' = -1
  /\ UNCHANGED <<err, exitCode, lastWait, browserVars, mbVars, mailbox, now, inflight,
                 confirmUrl, tailVars>>

\* Time passes while the watcher awaits an answer or sleeps.
Tick ==
  /\ pc \in {"w_listing", "w_fetching", "w_sleep"}
  /\ now < MaxTime
  /\ now' = now + 1
  /\ UNCHANGED <<pc, err, exitCode, stagesDone, lastWait, browserVars, mbVars, mailbox, inbox,
                 firstMatchAt, inflight, wVars, tailVars>>

\* The provider receives a message, before the watcher is called or while
\* it awaits an answer or sleeps.
MessageArrives ==
  /\ pc \in {"waitConfirmation", "w_listing", "w_fetching", "w_sleep"}
  /\ Len(inbox) < MaxInbox
  /\ \E k \in MessageKeys :
       /\ inbox' = Append(inbox, k)
       /\ firstMatchAt' = IF firstMatchAt = -1 /\ HasLink(k) THEN now ELSE firstMatchAt
  /\ UNCHANGED <<pc, err, exitCode, stagesDone, lastWait, browserVars, mbVars, mailbox, now,
                 inflight, wVars, tailVars>>


(***************************************************************************)
(* main(): confirmation, login and trial activation.                       *)
(***************************************************************************)
\* Promise.all([pageConfirm.waitForNavigation({...}), backToLoginBtn.click()])
\* The errors it can reject with.
BackToLoginErrors(navOk, clickOk) ==
  (IF navOk THEN {} ELSE {"page.waitForNavigation failed"})
    \cup (IF clickOk THEN {} ELSE {"locator.click failed"})

\* Lines 293-300.
BackToLogin ==
  /\ pc = "backToLogin"
  /\ \E visible \in BOOLEAN, navOk \in BOOLEAN, clickOk \in BOOLEAN :
       IF ~visible
         THEN /\ Throw(Error("locator.waitFor failed"))
              /\ lastWait' = lastWait
       ELSE /\ lastWait' = [name |-> "navigation", ok |-> navOk]
            /\ IF BackToLoginErrors(navOk, clickOk) = {}
                 THEN /\ pc' = "login"
                      /\ err' = err
                 ELSE \E e \in BackToLoginErrors(navOk, clickOk) : Throw(Error(e))
  /\ UNCHANGED <<exitCode, stagesDone, browserVars, mbVars, mailbox, worldVars, wVars, tailVars>>

\* Statuses the trial endpoint answers with, and lengths of its body.
TrialStatuses == {200, 299, 300}
TrialBodyLens == {0, TrialBodySnip, TrialBodySnip + 1}

\* Lines 366-377: the response awaited and the click.
TrialClick ==
  /\ pc = "trialClick"
  /\ \E ok \in BOOLEAN, status \in TrialStatuses :
       IF ok
         THEN /\ trialResp' = [status |-> status, bodyLen |-> 0, readable |-> FALSE]
              /\ pc' = "trialCheck"
              /\ err' = err
         ELSE /\ trialResp' = trialResp
              /\ Throw(Error("page.waitForResponse failed"))
  /\ UNCHANGED <<exitCode, stagesDone, lastWait, browserVars, mbVars, mailbox, worldVars, wVars,
                 webhookReqs, postCalls, postEnv, postResp>>

\* A test that takes only 4xx and 5xx for failures.
TrialFailedFrom400(resp) == resp.status >= 400

\* !trialResp.ok()
TrialFailed(resp) == ~Ok(resp.status)

\* body.slice(0, 800), on the length of the body.
Slice(len) == IF len < TrialBodySnip THEN len ELSE TrialBodySnip

\* Lines 379-382; the body is read only when the status is a failure, and
\* text().catch(() => "") makes an unreadable body the empty string.
TrialCheck ==
  /\ pc = "trialCheck"
  /\ IF TrialFailed(trialResp)
       THEN \E len \in TrialBodyLens, readable \in BOOLEAN :
              /\ trialResp' = [trialResp EXCEPT !.bodyLen = len, !.readable = readable]
              /\ Throw([kind |-> "Trial request failed", msg |-> <<>>,
                        status |-> trialResp.status,
                        body |-> Slice(IF readable THEN len ELSE 0)])
       ELSE /\ pc' = "modalWait"
            /\ UNCHANGED <<trialResp, err>>
  /\ UNCHANGED <<exitCode, stagesDone, lastWait, browserVars, mbVars, mailbox, worldVars, wVars,
                 webhookReqs, postCalls, postEnv, postResp>>

\* await modalTitle.waitFor({ state: "hidden", ... }).catch(() => null)
\* The errors it can reject with.
ModalWaitErrors(hidden) == {}

\* Lines 385-388.
ModalWait ==
  /\ pc = "modalWait"
  /\ \E hidden \in BOOLEAN :
       /\ lastWait' = [name |-> "modalHidden", ok |-> hidden]
       /\ IF ModalWaitErrors(hidden) = {}
            THEN /\ pc' = "postResult"
                 /\ stagesDone' = 4
                 /\ err' = err
            ELSE /\ \E e \in ModalWaitErrors(hidden) : Throw(Error(e))
                 /\ stagesDone' = stagesDone
  /\ UNCHANGED <<exitCode, browserVars, mbVars, mailbox, worldVars, wVars, tailVars>>

(***************************************************************************)
(* postResult().                                                           *)
(***************************************************************************)
\* Values of process.env.RESULT_WEBHOOK_URL and process.env.JOB_ID.
EnvUrls == {"undefined", "https://worker.example/result"}
EnvJobIds == {"", "job-1"}
WebhookStatuses == {200, 300, 500}

\* A test that skips only when both are absent.
SkipPostWhenBoth(url, jobId) == url \in {"undefined", ""} /\ jobId \in {"undefined", ""}

\* if (!url || !jobId)
SkipPost(url, jobId) == url \in {"undefined", ""} \/ jobId \in {"undefined", ""}

\* const payload = { jobId, desiredLogin, email, ts }; desiredLogin is the
\* value of line 336.
Payload(jobId) ==
  [jobId |-> jobId, desiredLogin |-> "romani6648s", email |-> mailbox.address, ts |-> now]

\* main's call (391) and the whole of postResult (165-191); process.env is
\* read nowhere else, so its two values are drawn where they are read.
PostResult ==
  /\ pc = "postResult"
  /\ postCalls' = postCalls + 1
  /\ \E url \in EnvUrls, jobId \in EnvJobIds :
       /\ postEnv' = [url |-> url, jobId |-> jobId]
       /\ IF SkipPost(url, jobId)
            THEN /\ pc' = "traceStop"
                 /\ stagesDone' = 5
                 /\ UNCHANGED <<webhookReqs, postResp, err>>
            ELSE /\ webhookReqs' = Append(webhookReqs, Payload(jobId))
                 /\ \E net \in BOOLEAN, status \in WebhookStatuses :
                      IF ~net
                        THEN /\ Throw(Error("fetch failed"))
                             /\ UNCHANGED <<postResp, stagesDone>>
                      ELSE IF ~Ok(status)
                        THEN /\ Throw([kind |-> "Result webhook failed", msg |-> <<>>,
                                       status |-> status, body |-> 0])
                             /\ postResp' = status
                             /\ stagesDone' = stagesDone
                      ELSE /\ postResp' = status
                           /\ pc' = "traceStop"
                           /\ stagesDone' = 5
                           /\ err' = err
  /\ lastWait' = NoWait
  /\ UNCHANGED <<exitCode, browserVars, mbVars, mailbox, worldVars, wVars, trialResp>>

(***************************************************************************)
(* main(): the end of the try block, finally, and the process exit.        *)
(***************************************************************************)
\* Lines 398-403.
TraceStop ==
  /\ pc = "traceStop"
  /\ IF tracingStarted
       THEN /\ calls' = Append(calls, "tracing.stop")
            /\ \E ok \in BOOLEAN :
                 IF ok
                   THEN /\ tracing' = "stopped"
                        /\ tracingStarted' = FALSE
                        /\ pc' = "closeAllTabs"
                        /\ err' = err
                   ELSE /\ UNCHANGED <<tracing, tracingStarted>>
                        /\ Throw(Error("tracing.stop failed"))
       ELSE /\ pc' = "closeAllTabs"
            /\ UNCHANGED <<calls, tracing, tracingStarted, err>>
  /\ UNCHANGED <<exitCode, stagesDone, lastWait, browser, context, pages, mbVars, mailbox,
                 worldVars, wVars, tailVars>>

\* closeAllTabs(context), lines 151-160, called at line 406: a close that
\* throws is ignored and leaves its page open.
CloseAllTabs ==
  /\ pc = "closeAllTabs"
  /\ calls' = Append(calls, "closeAllTabs")
  /\ \E closes \in [1..Len(pages) -> BOOLEAN] :
       pages' = [i \in 1..Len(pages) |->
                   IF pages[i] = "open" /\ closes[i] THEN "closed" ELSE pages[i]]
  /\ pc' = "finally"
  /\ UNCHANGED <<err, exitCode, stagesDone, lastWait, browser, context, tracing, tracingStarted,
                 mbVars, mailbox, worldVars, wVars, tailVars>>

\* Lines 408-416: a failure of this stop is logged.
Finally ==
  /\ pc = "finally"
  /\ IF tracingStarted
       THEN /\ calls' = Append(calls, "tracing.stop")
            /\ \E ok \in BOOLEAN : tracing' = IF ok THEN "stopped" ELSE tracing
       ELSE UNCHANGED <<calls, tracing>>
  /\ pc' = "contextClose"
  /\ lastWait' = NoWait
  /\ UNCHANGED <<err, exitCode, stagesDone, browser, context, pages, tracingStarted,
                 mbVars, mailbox, worldVars, wVars, tailVars>>

\* await context.close().catch(() => null); closing a context closes its pages.
ContextClose ==
  /\ pc = "contextClose"
  /\ calls' = Append(calls, "context.close")
  /\ \E ok \in BOOLEAN :
       IF ok
         THEN /\ context' = "closed"
              /\ pages' = [i \in 1..Len(pages) |-> "closed"]
         ELSE UNCHANGED <<context, pages>>
  /\ pc' = "browserClose"
  /\ UNCHANGED <<err, exitCode, stagesDone, lastWait, browser, tracing, tracingStarted,
                 mbVars, mailbox, worldVars, wVars, tailVars>>

\* await browser.close().catch(() => null); closing the browser closes its
\* contexts and pages.
BrowserClose ==
  /\ pc = "browserClose"
  /\ calls' = Append(calls, "browser.close")
  /\ \E ok \in BOOLEAN :
       IF ok
         THEN /\ browser' = "closed"
              /\ context' = "closed"
              /\ pages' = [i \in 1..Len(pages) |-> "closed"]
         ELSE UNCHANGED <<browser, context, pages>>
  /\ pc' = "settle"
  /\ UNCHANGED <<err, exitCode, stagesDone, lastWait, tracing, tracingStarted,
                 mbVars, mailbox, worldVars, wVars, tailVars>>

\* Lines 423-426: main's promise settles; a rejection is printed and the
\* process exits with 1, otherwise it ends with 0.
Settle ==
  /\ pc = "settle"
  /\ exitCode' = IF err = NoErr THEN 0 ELSE 1
  /\ pc' = "exited"
  /\ UNCHANGED <<err, stagesDone, lastWait, browserVars, mbVars, mailbox, worldVars, wVars,
                 tailVars>>

Next ==
  \/ Launch
  \/ NewContext
  \/ TracingStart
  \/ MbDomains
  \/ MbAccount
  \/ MbToken
  \/ MbExit
  \/ NewPage
  \/ UiStep
  \/ SignupSubmit
  \/ WCall
  \/ WLoop
  \/ WListed
  \/ WNext
  \/ WFetched
  \/ WSleepDone
  \/ WExit
  \/ Tick
  \/ MessageArrives
  \/ BackToLogin
  \/ TrialClick
  \/ TrialCheck
  \/ ModalWait
  \/ PostResult
  \/ TraceStop
  \/ CloseAllTabs
  \/ Finally
  \/ ContextClose
  \/ BrowserClose
  \/ Settle

Spec == Init /\ [][Next]_vars


(***************************************************************************)
(* Properties.                                                             *)
(***************************************************************************)
IsClose(c) == c \in {"closeAllTabs", "context.close", "browser.close"}

\* C1: on every exit of main() after the browser was launched, the pages
\* are closed (closeAllTabs), then the context, then the browser.
C1_TeardownOnEveryExit ==
  (pc = "exited" /\ browser # "none")
    => SelectSeq(calls, IsClose) = <<"closeAllTabs", "context.close", "browser.close">>

\* C2: tracing, once started, is stopped before any page, context or
\* browser is closed, and a failure of the stop is never propagated out of
\* main().
C2_TraceStopNeverEscalates ==
  /\ (tracing # "off" /\ \E i \in 1..Len(calls) : IsClose(calls[i]))
       => calls[1] = "tracing.stop"
  /\ pc = "exited" => err.kind # "tracing.stop failed"

\* C3: every 422 adds one to the attempt counter and leads to a request with
\* a newly generated address; at most 10 account requests are sent, and ten
\* 422 answers end in "Failed to create account" without a token request.
C3_BoundedCollisionRetry ==
  /\ accountReqs <= MaxAttempts
  /\ addrDrawn = accountReqs
  /\ attempt > 0 => attempt = 1 + n422 + nOtherRetried
  /\ pc = "mb_account" => accountReqs = attempt - 1
  /\ n422 = MaxAttempts =>
       /\ tokenReqs = 0
       /\ pc \in {"mb_account", "mb_check", "mb_exit"}
       /\ pc = "mb_exit" => err = Error("mail.tm: Failed to create account after retries")

C3_Witness ==
  /\ pc = "mb_exit"
  /\ n422 = MaxAttempts
  /\ accountReqs = MaxAttempts
  /\ err.kind = "mail.tm: Failed to create account after retries"

\* C4: an account request that failed with a status other than 422 is never
\* retried.
C4_OnlyStatus422Retried == nOtherRetried = 0

\* C5 as stated: TimeoutError is raised unless a message with a link
\* appeared before the deadline, and it is never raised before the deadline.
C5_TimeoutUnlessLinkInTime ==
  /\ (pc = "w_exit" /\ confirmUrl # <<>>) => (firstMatchAt # -1 /\ firstMatchAt < deadline)
  /\ err.kind = "Timed out waiting for confirmation email" => now >= deadline

\* What holds of the watcher in every state: a timeout is raised only at or
\* after the deadline, and every round in progress began before it.
RoundsBeginBeforeDeadline ==
  /\ err.kind = "Timed out waiting for confirmation email"
       => (now >= deadline /\ confirmUrl = <<>> /\ inflight = 0)
  /\ pc \in {"w_listing", "w_next", "w_fetching", "w_sleep"} => (roundInTime /\ err = NoErr)
  /\ (pc = "w_exit" /\ confirmUrl # <<>>) => (roundInTime /\ err = NoErr)

\* C5 amended: the deadline is tested only where a poll round begins.  The
\* test raises TimeoutError when the clock has reached the deadline and
\* begins another round when it has not, so TimeoutError is never raised
\* before the deadline; a round that began before the deadline runs to its
\* end without raising TimeoutError, so it can still return a link that
\* appeared only after the deadline.
C5_DeadlineTestedPerRound ==
  /\ []RoundsBeginBeforeDeadline
  /\ [][pc = "w_loop" =>
          IF now < deadline
            THEN pc' = "w_listing" /\ err' = NoErr
            ELSE pc' = "w_exit" /\ err'.kind = "Timed out waiting for confirmation email"]_vars

C5_Witness ==
  /\ pc = "w_exit"
  /\ err.kind = "Timed out waiting for confirmation email"
  /\ timeoutMs > 0
  /\ Len(inbox) = MaxInbox
  /\ firstMatchAt = -1

\* C6: a trial response that is no success raises "Trial request failed"
\* with the status and the first 800 characters of the body and postResult
\* is not called; after a success the run reaches postResult whether the
\* modal was seen hidden or not; postResult is called at most once, and only
\* after a successful trial response.
C6_TrialJudgedByStatus ==
  /\ postCalls <= 1
  /\ postCalls = 1 => (trialResp.status >= 200 /\ trialResp.status <= 299)
  /\ (pc # "trialCheck" /\ trialResp # NoResp /\ ~(trialResp.status >= 200 /\ trialResp.status <= 299))
       => /\ err.kind = "Trial request failed"
          /\ err.status = trialResp.status
          /\ err.body = (IF ~trialResp.readable THEN 0
                         ELSE IF trialResp.bodyLen <= 800 THEN trialResp.bodyLen ELSE 800)
          /\ postCalls = 0
  /\ lastWait.name = "modalHidden" => (pc = "postResult" /\ err = NoErr)

C6_Witness ==
  /\ err.kind = "Trial request failed"
  /\ trialResp.readable
  /\ trialResp.bodyLen > TrialBodySnip
  /\ err.body = TrialBodySnip
  /\ pc = "exited"

\* C7: postResult sends nothing and returns when the URL or the job id is
\* absent; otherwise it sends one POST with {jobId, desiredLogin, email, ts}
\* and raises "Result webhook failed" exactly when the answer is no success.
C7_PostResultContract ==
  postCalls = 1 =>
    IF postEnv.url \in {"undefined", ""} \/ postEnv.jobId \in {"undefined", ""}
      THEN /\ webhookReqs = <<>>
           /\ stagesDone = 5
           /\ err.kind \notin {"Result webhook failed", "fetch failed"}
      ELSE /\ webhookReqs = <<[jobId |-> postEnv.jobId, desiredLogin |-> "romani6648s",
                               email |-> mailbox.address, ts |-> now]>>
           /\ err.kind = "Result webhook failed"
                <=> (postResp # 0 /\ ~(postResp >= 200 /\ postResp <= 299))
           /\ err.kind = "Result webhook failed" => err.status = postResp

C7_Witness ==
  /\ pc = "traceStop"
  /\ postCalls = 1
  /\ postEnv.url = "https://worker.example/result"
  /\ postEnv.jobId = ""
  /\ webhookReqs = <<>>
  /\ err = NoErr

\* The error each wait raises when it fails.
WaitError(name) ==
  CASE name = "networkidle" -> "page.waitForLoadState failed"
    [] name = "navigation" -> "page.waitForNavigation failed"
    [] name = "modalHidden" -> "locator.waitFor hidden failed"
    [] OTHER -> "no wait"

\* C8 as stated: a failure of the idle-network wait, of the navigation wait
\* after "back to login" or of the modal-hidden wait is never the error
\* that aborts the run.
C8_BestEffortWaitsNeverAbort ==
  ~lastWait.ok => err.kind # WaitError(lastWait.name)

\* C8 amended: a failure of the idle-network wait of the signup page or of
\* the modal-hidden wait is swallowed and the run goes on to the next step;
\* a failure of the navigation wait after "back to login" is not: it aborts
\* the run.
C8_TwoWaitsSwallowed ==
  /\ (lastWait.name = "networkidle" /\ ~lastWait.ok)
       => /\ err.kind \in {"none", "locator.click failed"}
          /\ err = NoErr => pc = "waitConfirmation"
  /\ (lastWait.name = "modalHidden" /\ ~lastWait.ok)
       => (err = NoErr /\ pc = "postResult")
  /\ (lastWait.name = "navigation" /\ ~lastWait.ok)
       => /\ err.kind \in {"page.waitForNavigation failed", "locator.click failed"}
          /\ pc = "finally"

C8_Witness ==
  /\ lastWait = [name |-> "networkidle", ok |-> FALSE]
  /\ pc = "waitConfirmation"
  /\ err = NoErr
  /\ stagesDone = 2

\* C9: the exit code is 0 exactly when the five stages completed.
C9_ExitCodeTellsSuccess ==
  pc = "exited" => (exitCode = 0 <=> stagesDone = 5)

\* The positions up to n of the listed messages that carry an id, in order.
EntriesWithId(n) ==
  LET WithId(i) == Message(messages[i]).id # ""
  IN SelectSeq([i \in 1..n |-> i], WithId)

\* The link each message of the catalogue holds first.
ExpectedLink(k) ==
  CASE k = "linkText" ->
         <<"h","t","t","p","s">> \o ReRest \o UuidA
    [] k = "linkHtml" ->
         <<"h","t","t","p">> \o ReRest \o UuidB
    [] OTHER -> <<>>

\* What holds of a poll round in every state: the bodies requested so far
\* are those of the listed messages with an id, in list order, none before
\* the current one held a link, and one request at most awaits its answer.
OneMessageAtATime ==
  /\ inflight = (IF pc \in {"w_listing", "w_fetching"} THEN 1 ELSE 0)
  /\ pc = "w_next" =>
       /\ fetched = EntriesWithId(idx - 1)
       /\ \A i \in 1..Len(fetched) : ExpectedLink(messages[fetched[i]]) = <<>>
  /\ pc = "w_fetching" =>
       /\ fetched = EntriesWithId(idx)
       /\ fetched[Len(fetched)] = idx
       /\ \A i \in 1..(Len(fetched) - 1) : ExpectedLink(messages[fetched[i]]) = <<>>
  /\ pc = "w_sleep" =>
       /\ idx = Len(messages) + 1
       /\ fetched = EntriesWithId(Len(messages))
       /\ \A i \in 1..Len(fetched) : ExpectedLink(messages[fetched[i]]) = <<>>
       /\ err = NoErr
       /\ confirmUrl = <<>>
  /\ (pc = "w_exit" /\ confirmUrl # <<>>) =>
       /\ fetched = EntriesWithId(idx)
       /\ fetched[Len(fetched)] = idx
       /\ confirmUrl = ExpectedLink(messages[idx])
       /\ \A i \in 1..(Len(fetched) - 1) : ExpectedLink(messages[fetched[i]]) = <<>>

\* C10: a round requests the bodies of the listed messages that have an id
\* one at a time, in list order; it returns the link of the first one that
\* holds one and requests no later body; a round without a match raises no
\* error: it sleeps pollEveryMs and tests the deadline again; at most one
\* provider request is in flight.
C10_FirstMatchInListOrder ==
  /\ []OneMessageAtATime
  /\ [][pc = "w_sleep" /\ pc' # "w_sleep" =>
          pc' = "w_loop" /\ now >= wakeAt /\ err' = NoErr]_vars
  /\ [][pc = "w_next" /\ pc' = "w_sleep" => wakeAt' = now + pollEveryMs]_vars

C10_Witness ==
  /\ pc = "w_exit"
  /\ messages = <<"linkHtml", "linkText">>
  /\ idx = 1
  /\ fetched = <<1>>
  /\ confirmUrl = <<"h","t","t","p">> \o ReRest \o UuidB

====
